---- MODULE Spec2Model ----
(***************************************************************************)
(* Model of the chart rendering code of the analytics chat front end: the  *)
(* ChartDisplay component, which exists in four copies                     *)
(*   "app"  src/frontend/src/App.js:246 (same text as part_001:277)        *)
(*   "ri"   src/frontend/src/components/chat/ResponseInterface.jsx:225     *)
(*   "pro"  src/unnamed/part_001:1319                                      *)
(*   "icv"  src/unnamed/part_002:72                                        *)
(* and the label truncations of the chart and chat-title code.             *)
(*                                                                         *)
(* JavaScript numbers are modelled as exact rationals extended with NaN    *)
(* and the two infinities (the sign of zero and binary rounding are not    *)
(* modelled).  JavaScript values that can stand in a JSON series are       *)
(* numbers, null and strings; undefined is what an out-of-range index      *)
(* yields.                                                                 *)
(***************************************************************************)
EXTENDS Integers, Sequences, FiniteSets, TLC

(***************************************************************************)
(* JavaScript values.  Every value is a record with the same three fields  *)
(* so that any two values can be compared.                                 *)
(*   k = "fin"   the rational n/d, d > 0, in lowest terms                  *)
(*   k = "inf"   +Infinity (n = 1) or -Infinity (n = -1)                   *)
(*   k = "nan"   NaN                                                       *)
(*   k = "null", "str", "undef"   null, a non-numeric string, undefined    *)
(***************************************************************************)
Abs(x) == IF x < 0 THEN -x ELSE x

RECURSIVE Gcd(_, _)
Gcd(a, b) == IF b = 0 THEN a ELSE Gcd(b, a % b)

Sign(x) == IF x > 0 THEN 1 ELSE IF x < 0 THEN -1 ELSE 0

Frac(n, d) ==
  LET g == Gcd(Abs(n), Abs(d))
      s == IF d < 0 THEN -1 ELSE 1
  IN  [k |-> "fin", n |-> (s * n) \div g, d |-> (s * d) \div g]

Int2Num(i) == [k |-> "fin", n |-> i, d |-> 1]
NaN == [k |-> "nan", n |-> 0, d |-> 1]
PosInf == [k |-> "inf", n |-> 1, d |-> 1]
NegInf == [k |-> "inf", n |-> -1, d |-> 1]
Null == [k |-> "null", n |-> 0, d |-> 1]
StrVal == [k |-> "str", n |-> 0, d |-> 1]
Undefined == [k |-> "undef", n |-> 0, d |-> 1]
InfOf(s) == IF s > 0 THEN PosInf ELSE NegInf

IsNumber(v) == v.k \in {"fin", "inf", "nan"}
IsNaN(v) == v.k = "nan"
IsFin(v) == v.k = "fin"
IsNullish(v) == v.k \in {"null", "undef"}

\* ToNumber: null -> 0, undefined -> NaN, a non-numeric string -> NaN
ToNumber(v) ==
  IF IsNumber(v) THEN v
  ELSE IF v.k = "null" THEN Int2Num(0)
  ELSE NaN

SignOf(a) == Sign(a.n)

NumAdd(x, y) ==
  LET a == ToNumber(x)
      b == ToNumber(y)
  IN  IF IsNaN(a) \/ IsNaN(b) THEN NaN
      ELSE IF a.k = "inf" /\ b.k = "inf" THEN (IF a.n = b.n THEN a ELSE NaN)
      ELSE IF a.k = "inf" THEN a
      ELSE IF b.k = "inf" THEN b
      ELSE Frac(a.n * b.d + b.n * a.d, a.d * b.d)

NumNeg(x) ==
  LET a == ToNumber(x)
  IN  IF IsNaN(a) THEN NaN
      ELSE IF a.k = "inf" THEN InfOf(-a.n)
      ELSE Frac(-a.n, a.d)

NumSub(x, y) == NumAdd(x, NumNeg(y))

NumMul(x, y) ==
  LET a == ToNumber(x)
      b == ToNumber(y)
  IN  IF IsNaN(a) \/ IsNaN(b) THEN NaN
      ELSE IF a.k = "inf" \/ b.k = "inf"
           THEN (IF SignOf(a) = 0 \/ SignOf(b) = 0 THEN NaN
                 ELSE InfOf(SignOf(a) * SignOf(b)))
      ELSE Frac(a.n * b.n, a.d * b.d)

NumDiv(x, y) ==
  LET a == ToNumber(x)
      b == ToNumber(y)
  IN  IF IsNaN(a) \/ IsNaN(b) THEN NaN
      ELSE IF a.k = "inf" /\ b.k = "inf" THEN NaN
      ELSE IF a.k = "inf"
           THEN InfOf(a.n * (IF SignOf(b) < 0 THEN -1 ELSE 1))
      ELSE IF b.k = "inf" THEN Int2Num(0)
      ELSE IF b.n = 0
           THEN (IF a.n = 0 THEN NaN ELSE InfOf(SignOf(a)))
      ELSE Frac(a.n * b.d, a.d * b.n)

\* x > y and x < y of JavaScript: false as soon as either side is NaN
NumGt(x, y) ==
  LET a == ToNumber(x)
      b == ToNumber(y)
  IN  IF IsNaN(a) \/ IsNaN(b) THEN FALSE
      ELSE IF a.k = "inf" THEN a.n = 1 /\ ~(b.k = "inf" /\ b.n = 1)
      ELSE IF b.k = "inf" THEN b.n = -1
      ELSE a.n * b.d > b.n * a.d

NumLt(x, y) == NumGt(y, x)

\* Math.max(a, b), Math.min(a, b)
Max2(x, y) ==
  LET a == ToNumber(x)
      b == ToNumber(y)
  IN  IF IsNaN(a) \/ IsNaN(b) THEN NaN
      ELSE IF NumGt(b, a) THEN b ELSE a

Min2(x, y) ==
  LET a == ToNumber(x)
      b == ToNumber(y)
  IN  IF IsNaN(a) \/ IsNaN(b) THEN NaN
      ELSE IF NumLt(b, a) THEN b ELSE a

\* Math.max(...xs), Math.min(...xs): -Infinity and +Infinity on no argument
RECURSIVE MaxOf(_)
MaxOf(xs) == IF xs = <<>> THEN NegInf ELSE Max2(Head(xs), MaxOf(Tail(xs)))

RECURSIVE MinOf(_)
MinOf(xs) == IF xs = <<>> THEN PosInf ELSE Min2(Head(xs), MinOf(Tail(xs)))

\* a || b on numbers: 0 and NaN are falsy
OrElse(a, b) == IF IsNaN(a) \/ (IsFin(a) /\ a.n = 0) THEN b ELSE a

\* xs.filter(val => typeof val === 'number')
RECURSIVE FilterNumeric(_)
FilterNumeric(xs) ==
  IF xs = <<>> THEN <<>>
  ELSE IF IsNumber(Head(xs)) THEN <<Head(xs)>> \o FilterNumeric(Tail(xs))
  ELSE FilterNumeric(Tail(xs))

\* data.reduce((sum, val) => sum + (typeof val === 'number' ? val : 0), 0)
RECURSIVE SumNumeric(_)
SumNumeric(xs) ==
  IF xs = <<>> THEN Int2Num(0)
  ELSE NumAdd(SumNumeric(SubSeq(xs, 1, Len(xs) - 1)),
              IF IsNumber(xs[Len(xs)]) THEN xs[Len(xs)] ELSE Int2Num(0))

\* arr[index] with a 1-based index: undefined outside the array
At(xs, i) == IF i \in 1..Len(xs) THEN xs[i] ELSE Undefined


\* x.toFixed(1), read back as a number: one decimal, a tie rounded away
\* from zero; NaN and the infinities print as themselves
ToFixed1(x) ==
  LET a == ToNumber(x)
      m == 20 * Abs(a.n)
      q == (m + a.d) \div (2 * a.d)
  IN  IF ~IsFin(a) THEN a ELSE Frac(Sign(a.n) * q, 10)

(***************************************************************************)
(* Strings are sequences of character codes; Dot is the code of '.'.       *)
(***************************************************************************)
Dot == 0
Ellipsis == <<Dot, Dot, Dot>>

\* s.substring(0, k)
Substring0(s, k) == SubSeq(s, 1, IF k < Len(s) THEN k ELSE Len(s))

LineLabelMax == 12
BarLabelMax == 20
ProLabelMax == 8
TitleMax == 50
TitleKeep == 47

\* a truncation that keeps the result within the budget
TruncateLineLabelWithin(label) ==
  IF Len(label) > LineLabelMax
  THEN Substring0(label, LineLabelMax - 3) \o Ellipsis
  ELSE label

\* a truncation that gives up the last four characters for the ellipsis
TruncateLineLabelTrimEnd(label) ==
  IF Len(label) > LineLabelMax
  THEN Substring0(label, Len(label) - 4) \o Ellipsis
  ELSE label

\* App.js renderLineChart x-axis label
TruncateLineLabel(label) ==
  IF Len(label) > LineLabelMax
  THEN Substring0(label, LineLabelMax) \o Ellipsis
  ELSE label

\* ResponseInterface.jsx renderBarChart row label
TruncateBarLabel(label) ==
  IF Len(label) > BarLabelMax
  THEN Substring0(label, BarLabelMax) \o Ellipsis
  ELSE label

\* part_001 renderLineChart (smooth variant) x-axis label: cut, no ellipsis
TruncateProLabel(label) ==
  IF Len(label) > ProLabelMax THEN Substring0(label, ProLabelMax) ELSE label

\* chatApi generateChatTitle, the truncation step
TruncateChatTitle(title) ==
  IF Len(title) > TitleMax
  THEN Substring0(title, TitleKeep) \o Ellipsis
  ELSE title

\* MainChatInterface handleSubmit, the title of a new chat
TruncateQueryTitle(query) ==
  IF Len(query) > TitleMax
  THEN Substring0(query, TitleMax) \o Ellipsis
  ELSE query

(***************************************************************************)
(* ChartDisplay.  chartData is a record                                    *)
(*   [variant, type, labels, data]                                         *)
(* type "" stands for a missing type, labels is chartData.data.labels and  *)
(* data is chartData.data.datasets[0].data.  Indices are 1-based here; the *)
(* 0-based index of the source is i - 1.                                   *)
(***************************************************************************)
Variants == {"app", "ri", "pro", "icv"}

\* const chartType = chartData.type || 'bar'
ChartType(chartData) == IF chartData.type = "" THEN "bar" ELSE chartData.type

\* const maxValue = Math.max(...data.filter(val => typeof val === 'number'))
MaxValue(data) == MaxOf(FilterNumeric(data))

Palette(variant) ==
  IF variant = "app"
  THEN <<"#3B82F6", "#10B981", "#F59E0B", "#EF4444",
         "#8B5CF6", "#EC4899", "#06B6D4", "#84CC16">>
  ELSE IF variant = "ri"
  THEN <<"#3B82F6", "#10B981", "#F59E0B", "#EF4444", "#8B5CF6", "#EC4899">>
  ELSE <<"#3B82F6", "#10B981", "#F59E0B", "#EF4444", "#8B5CF6">>

\* getChartColors('pie', data.length): scheme.slice(0, dataLength); the
\* other copies index their palette whole
getChartColors(variant, dataLength) ==
  IF variant = "app"
  THEN Substring0(Palette(variant), dataLength)
  ELSE Palette(variant)

\* scheme[0], a string: indexing it yields its characters
SchemeFirst == <<"#", "3", "B", "8", "2", "F", "6">>

\* a palette function that knows 'pie' only
ColorsOfPieOnly(variant, builder, dataLength) ==
  IF variant = "app" /\ builder # "pie" THEN SchemeFirst
  ELSE getChartColors(variant, dataLength)

\* the colours a builder indexes: App.js calls getChartColors with its own
\* type, 'pie' or 'doughnut', and gets the slice for both and scheme[0] for
\* any other type; the other copies hold the same array literal in both
\* builders
ColorsOf(variant, builder, dataLength) ==
  IF variant = "app" /\ builder \notin {"pie", "doughnut"} THEN SchemeFirst
  ELSE getChartColors(variant, dataLength)

\* a lookup that stays on the last colour instead of cycling
ColorAtClamped(colors, i) ==
  IF Len(colors) = 0 THEN "undefined"
  ELSE colors[IF i > Len(colors) THEN Len(colors) ELSE i]

\* colors[index % colors.length]; index % 0 is NaN and colors[NaN] undefined
ColorAt(colors, i) ==
  IF Len(colors) = 0 THEN "undefined" ELSE colors[((i - 1) % Len(colors)) + 1]

MinBarPercent == 8

\* renderBarChart: one row per label, the width of its bar in percent
BarWidth(variant, data, i) ==
  LET maxValue == MaxValue(data)
      share == NumMul(NumDiv(At(data, i), maxValue), Int2Num(100))
  IN  IF variant = "ri"
      THEN (IF NumGt(maxValue, Int2Num(0))
            THEN Max2(share, Int2Num(MinBarPercent))
            ELSE Int2Num(MinBarPercent))
      ELSE (IF NumGt(maxValue, Int2Num(0)) THEN share ELSE Int2Num(0))

renderBarChart(variant, labels, data) ==
  [i \in 1..Len(labels) |->
     [label |-> IF variant = "ri" THEN TruncateBarLabel(labels[i]) ELSE labels[i],
      width |-> BarWidth(variant, data, i)]]

\* a running angle that is not reset between calls
InitialAngleKept(left) == left

\* let currentAngle = 0: the running angle starts afresh in every call,
\* whatever value an earlier call left in it
InitialAngle(left) == Int2Num(0)

\* the percentage of one series entry, as the arc callback computes it
SlicePercentage(variant, value, total) ==
  IF variant = "app"
  THEN (IF NumGt(total, Int2Num(0))
        THEN NumMul(NumDiv(value, total), Int2Num(100))
        ELSE Int2Num(0))
  ELSE NumMul(NumDiv(value, total), Int2Num(100))

\* its angle: (percentage / 100) * 360 in App.js, (value / total) * 360 in
\* the other copies
SliceAngle(variant, value, total) ==
  IF variant = "app"
  THEN NumMul(NumDiv(SlicePercentage(variant, value, total), Int2Num(100)),
              Int2Num(360))
  ELSE NumMul(NumDiv(value, total), Int2Num(360))

\* ResponseInterface skips an entry that is not a number before any math
SliceSkipped(variant, value) == variant = "ri" /\ ~IsNumber(value)

\* a builder with no visibility threshold
SliceDrawnAlways(variant, percentage) == TRUE

\* App.js returns null for a slice under 0.5 percent
SliceDrawn(variant, percentage) ==
  IF variant = "app" THEN ~NumLt(percentage, Frac(1, 2)) ELSE TRUE

\* data.map((value, index) => ...) of renderPieChart / renderDoughnutChart
RECURSIVE WalkSlices(_, _, _, _, _, _)
WalkSlices(variant, data, total, colors, i, currentAngle) ==
  IF i > Len(data) THEN <<>>
  ELSE IF SliceSkipped(variant, data[i])
  THEN WalkSlices(variant, data, total, colors, i + 1, currentAngle)
  ELSE LET percentage == SlicePercentage(variant, data[i], total)
           angle == SliceAngle(variant, data[i], total)
           endAngle == NumAdd(currentAngle, angle)
       IN  <<[index |-> i,
              percentage |-> percentage,
              sliceAngle |-> angle,
              startAngle |-> currentAngle,
              endAngle |-> endAngle,
              largeArcFlag |-> IF NumGt(angle, Int2Num(180)) THEN 1 ELSE 0,
              color |-> ColorAt(colors, i),
              drawn |-> SliceDrawn(variant, percentage)]>>
           \o WalkSlices(variant, data, total, colors, i + 1, endAngle)

\* the legend under the arcs: App.js and ResponseInterface only.  The
\* const percentage is the quotient in App.js, which rounds it in the text
\* only ({percentage.toFixed(1)}%), and the rounded quotient in
\* ResponseInterface
LegendPercentage(variant, value, total) ==
  IF variant = "app"
  THEN (IF NumGt(total, Int2Num(0))
        THEN NumMul(NumDiv(value, total), Int2Num(100))
        ELSE Int2Num(0))
  ELSE ToFixed1(NumMul(NumDiv(value, total), Int2Num(100)))

\* a legend that is one row for the total, whatever the series
LegendOfTotal(variant, labels, data, total, colors) ==
  <<[label |-> <<>>, color |-> ColorAt(colors, 1), value |-> total,
     percentage |-> Int2Num(100), shown |-> Int2Num(100)]>>

Legend(variant, labels, data, total, colors) ==
  IF variant \in {"app", "ri"}
  THEN [i \in 1..Len(labels) |->
          [label |-> labels[i],
           color |-> ColorAt(colors, i),
           value |-> At(data, i),
           percentage |-> LegendPercentage(variant, At(data, i), total),
           shown |-> ToFixed1(LegendPercentage(variant, At(data, i), total))]]
  ELSE <<>>

\* the rotation that puts angle 0 on screen: -90 where the svg is rotated
\* (App.js) or the trigonometry subtracts 90 (part_001), else 0
Rotation(variant) == IF variant \in {"app", "pro"} THEN -90 ELSE 0

(***************************************************************************)
(* renderLineChart.  LineScale is the ScaleDescriptor of one call:         *)
(* domainMin and range are what the y formula subtracts and divides by,    *)
(* left/plotWidth/baseline/plotHeight the pixel frame.                     *)
(***************************************************************************)
LineScale(variant, data) ==
  LET numericData == IF variant = "ri" THEN data ELSE FilterNumeric(data)
      maxValue == MaxOf(numericData)
      minValue == MinOf(numericData)
      range == OrElse(NumSub(maxValue, minValue), Int2Num(1))
      tenth == NumMul(range, Frac(1, 10))
      yAxisMax == NumAdd(maxValue, tenth)
      yAxisMin == Max2(Int2Num(0), NumSub(minValue, tenth))
  IN  IF variant = "pro"
      THEN [domainMin |-> yAxisMin, domainMax |-> yAxisMax,
            range |-> NumSub(yAxisMax, yAxisMin),
            left |-> 80, plotWidth |-> 660, baseline |-> 420, plotHeight |-> 360]
      ELSE IF variant = "ri"
      THEN [domainMin |-> minValue, domainMax |-> maxValue, range |-> range,
            left |-> 60, plotWidth |-> 480, baseline |-> 290, plotHeight |-> 230]
      ELSE [domainMin |-> minValue, domainMax |-> maxValue, range |-> range,
            left |-> 80, plotWidth |-> 570, baseline |-> 260, plotHeight |-> 200]

\* ((value - domainMin) / range) * plotHeight: the height of a value above
\* the baseline of the plot
Project(scale, value) ==
  NumMul(NumDiv(NumSub(value, scale.domainMin), scale.range),
         Int2Num(scale.plotHeight))

\* x = left + index * (plotWidth / Math.max(data.length - 1, 1))
PointX(scale, i, n) ==
  NumAdd(Int2Num(scale.left),
         NumMul(Int2Num(i - 1),
                Frac(scale.plotWidth, IF n - 1 > 1 THEN n - 1 ELSE 1)))

LinePoints(variant, data) ==
  LET scale == LineScale(variant, data)
  IN  [i \in 1..Len(data) |->
         [x |-> PointX(scale, i, Len(data)),
          y |-> NumSub(Int2Num(scale.baseline), Project(scale, data[i])),
          height |-> Project(scale, data[i]),
          value |-> data[i]]]

\* createSmoothPath returns '' for fewer than two points
NoPath == [drawn |-> FALSE, start |-> <<>>, segments |-> <<>>]

\* one segment of the path, from points[i - 1] to points[i]: a quadratic
\* curve for the first, a cubic one for the others; controls are the
\* control points in the order of the path command
Segment(points, i) ==
  LET prev == points[i - 1]
      curr == points[i]
      half == NumMul(NumSub(curr.x, prev.x), Frac(1, 2))
  IN  IF i = 2
      THEN [cmd |-> "Q",
            controls |-> <<[x |-> NumAdd(prev.x, half), y |-> prev.y]>>,
            x |-> curr.x, y |-> curr.y]
      ELSE LET prevPrev == points[i - 2]
           IN  [cmd |-> "C",
                controls |->
                  <<[x |-> NumAdd(prev.x, NumMul(NumSub(curr.x, prevPrev.x),
                                                 Frac(15, 100))),
                     y |-> prev.y],
                    [x |-> NumSub(curr.x, NumMul(NumSub(curr.x, prev.x),
                                                 Frac(15, 100))),
                     y |-> curr.y]>>,
                x |-> curr.x, y |-> curr.y]

createSmoothPath(points) ==
  IF Len(points) < 2 THEN NoPath
  ELSE [drawn |-> TRUE,
        start |-> [x |-> points[1].x, y |-> points[1].y],
        segments |-> [k \in 1..(Len(points) - 1) |-> Segment(points, k + 1)]]

\* a trend that compares the highest value, not the last, with the first
TrendOfPeak(numericData) ==
  IF numericData = <<>> THEN "stable"
  ELSE IF NumGt(MaxOf(numericData), numericData[1]) THEN "up"
  ELSE IF NumLt(MaxOf(numericData), numericData[1]) THEN "down"
  ELSE "stable"

\* the trend indicator: numericData[0] against numericData[length - 1];
\* both are undefined for an empty numericData and no comparison holds
Trend(numericData) ==
  IF numericData = <<>> THEN "stable"
  ELSE LET firstValue == numericData[1]
           lastValue == numericData[Len(numericData)]
       IN  IF NumGt(lastValue, firstValue) THEN "up"
           ELSE IF NumLt(lastValue, firstValue) THEN "down"
           ELSE "stable"

\* the x-axis labels: App.js maps the labels, the other copies label each
\* data point with labels[index]
LineLabels(variant, labels, data) ==
  IF variant = "app"
  THEN [i \in 1..Len(labels) |-> TruncateLineLabel(labels[i])]
  ELSE IF variant = "pro"
  THEN [i \in 1..Len(data) |->
          IF i <= Len(labels) THEN TruncateProLabel(labels[i]) ELSE <<>>]
  ELSE [i \in 1..Len(data) |-> IF i <= Len(labels) THEN labels[i] ELSE <<>>]

(***************************************************************************)
(* Where a render throws a TypeError: a method call on null or undefined.  *)
(*   App.js pie/doughnut legend   data[index].toLocaleString()             *)
(*   App.js line points           value.toLocaleString()                   *)
(*   part_001 line x-axis labels  point.label.length                       *)
(* Every other method call of the four copies is on a number or a string   *)
(* or stands behind a typeof guard.                                        *)
(***************************************************************************)
Throws(variant, builder, labels, data) ==
  \/ /\ variant = "app"
     /\ builder \in {"pie", "doughnut"}
     /\ \E i \in 1..Len(labels) : IsNullish(At(data, i))
  \/ /\ variant = "app"
     /\ builder = "line"
     /\ \E i \in 1..Len(data) : IsNullish(data[i])
  \/ /\ variant = "pro"
     /\ builder = "line"
     /\ Len(data) > Len(labels)

\* renderChart: the switch on chartType; part_002 has no switch, only
\* chartType === 'pie' || chartType === 'doughnut' ? pie : bar
renderChart(variant, chartType) ==
  IF variant = "icv"
  THEN (IF chartType \in {"pie", "doughnut"} THEN "pie" ELSE "bar")
  ELSE IF chartType \in {"pie", "doughnut", "line"} THEN chartType
  ELSE "bar"

\* chartType.charAt(0).toUpperCase() + chartType.slice(1)
Capitalize(chartType) ==
  CASE chartType = "bar" -> "Bar"
    [] chartType = "pie" -> "Pie"
    [] chartType = "doughnut" -> "Doughnut"
    [] chartType = "line" -> "Line"
    [] OTHER -> "Scatter"

\* new Date().toLocaleTimeString(): the wall clock to the second
TicksPerSecond == 2
toLocaleTimeString(now) == now \div TicksPerSecond

\* the inner radius of the emitted segments: 0 is a full wedge
InnerRadius(variant, builder) ==
  IF builder # "doughnut" THEN 0
  ELSE IF variant = "app" THEN 60
  ELSE IF variant = "ri" THEN 70
  ELSE 45

EmptyTree ==
  [status |-> "null", title |-> "", chartType |-> "", dataPoints |-> 0,
   builder |-> "", rotation |-> 0, innerRadius |-> 0,
   bars |-> <<>>, slices |-> <<>>,
   legend |-> <<>>, points |-> <<>>, xLabels |-> <<>>,
   path |-> NoPath, trend |-> "",
   footerType |-> "", generated |-> 0]

\* the component: chartData, the clock and the running angle an earlier
\* render left behind -> the rendered tree
ChartDisplay(chartData, now, left) ==
  IF ~chartData.present THEN EmptyTree
  ELSE
  LET variant == chartData.variant
      labels == chartData.labels
      data == chartData.data
      chartType == ChartType(chartData)
      builder == renderChart(variant, chartType)
      total == SumNumeric(data)
      colors == ColorsOf(variant, builder, Len(data))
  IN  IF Throws(variant, builder, labels, data)
      THEN [EmptyTree EXCEPT !.status = "threw"]
      ELSE [status |-> "ok",
            title |-> IF chartData.title = "" THEN "Analytics Chart"
                      ELSE chartData.title,
            chartType |-> chartType,
            dataPoints |-> Len(data),
            builder |-> builder,
            rotation |-> IF builder \in {"pie", "doughnut"}
                         THEN Rotation(variant) ELSE 0,
            innerRadius |-> InnerRadius(variant, builder),
            bars |-> IF builder = "bar"
                     THEN renderBarChart(variant, labels, data) ELSE <<>>,
            slices |-> IF builder \in {"pie", "doughnut"}
                       THEN WalkSlices(variant, data, total, colors, 1,
                                       InitialAngle(left))
                       ELSE <<>>,
            legend |-> IF builder \in {"pie", "doughnut"}
                       THEN Legend(variant, labels, data, total, colors)
                       ELSE <<>>,
            points |-> IF builder = "line"
                       THEN LinePoints(variant, data) ELSE <<>>,
            xLabels |-> IF builder = "line"
                        THEN LineLabels(variant, labels, data) ELSE <<>>,
            path |-> IF builder = "line" /\ variant = "pro"
                     THEN createSmoothPath(LinePoints(variant, data))
                     ELSE NoPath,
            trend |-> IF builder = "line" /\ variant = "pro"
                      THEN Trend(FilterNumeric(data)) ELSE "",
            footerType |-> Capitalize(chartType),
            generated |-> toLocaleTimeString(now)]

\* the value the running angle holds when the call returns
AngleAfter(tree, left) ==
  IF tree.builder \notin {"pie", "doughnut"} THEN left
  ELSE IF tree.slices = <<>> THEN InitialAngle(left)
  ELSE tree.slices[Len(tree.slices)].endAngle

(***************************************************************************)
(* The inputs.  A series entry is a number, null or a non-numeric string;  *)
(* the label at position i is a fixed string whose length depends on i, so *)
(* that short and long labels both occur.                                  *)
(***************************************************************************)
MaxSeries == 2
MaxLabels == 2
MaxClock == 3

SeriesValues ==
  {Int2Num(-2), Int2Num(-1), Int2Num(0), Int2Num(1), Int2Num(399), Null, StrVal}

ChartTypes == {"bar", "pie", "doughnut", "line", "scatter", ""}

Titles == {"", "Sales by Region"}

LabelLength(i) == IF i % 3 = 1 THEN 21 ELSE IF i % 3 = 2 THEN 1 ELSE 13

LabelAt(i) == [c \in 1..LabelLength(i) |-> 10 * i + c]

LabelsOf(n) == [i \in 1..n |-> LabelAt(i)]

SeqsUpTo(S, n) == UNION {[1..m -> S] : m \in 0..n}

NoChartData ==
  [present |-> FALSE, variant |-> "app", type |-> "", title |-> "",
   labels |-> <<>>, data |-> <<>>]

ChartInputs ==
  {[present |-> TRUE, variant |-> v, type |-> t, title |-> ti,
    labels |-> LabelsOf(n), data |-> d] :
      v \in Variants, t \in ChartTypes, ti \in Titles,
      n \in 0..MaxLabels, d \in SeqsUpTo(SeriesValues, MaxSeries)}
  \cup {[NoChartData EXCEPT !.variant = v] : v \in Variants}

(***************************************************************************)
(* State.                                                                  *)
(*   chartData     the specification the host hands to ChartDisplay        *)
(*   tree          what the last render of chartData returned              *)
(*   firstTree     what the first render of chartData returned             *)
(*   now           the wall clock, in ticks                                *)
(*   currentAngle  the value the running angle of the pie/doughnut walk    *)
(*                 held when the last call of any ChartDisplay returned    *)
(***************************************************************************)
(*   site, text    a truncation site of the code and the string it is     *)
(*                 handed                                                  *)
(*   shown         the string the site returned                            *)
(***************************************************************************)
VARIABLES chartData, tree, firstTree, now, currentAngle, site, text, shown,
          app, ri, chat, net, recent, main

chartVars == <<chartData, tree, firstTree, now, currentAngle>>

truncVars == <<site, text, shown>>

\* the state of the components that host the charts
hostVars == <<app, ri, chat>>

\* the state of the provider and of the pages around the chat
pageVars == <<net, recent, main>>

vars == <<chartVars, truncVars, hostVars, pageVars>>

NotRendered == [EmptyTree EXCEPT !.status = "none"]

NotShown == [done |-> FALSE, text |-> <<>>, again |-> FALSE, twice |-> <<>>]

ChartIdle ==
  /\ chartData = NoChartData
  /\ tree = NotRendered
  /\ firstTree = NotRendered
  /\ now = 0
  /\ currentAngle = Int2Num(0)

TruncIdle == site = "" /\ text = <<>> /\ shown = NotShown

\* App.js: useState([]), useState(''), useState(false); no fetch pending
AppIdle ==
  [messages |-> <<>>, currentQuery |-> "", isLoading |-> FALSE,
   inFlight |-> 0, calls |-> 0]

\* ResponseInterface after its first render, in the copy of
\* ResponseInterface.jsx ("ri") or of part_001 ("pro"), with a query prop
RiMounted(v) ==
  [variant |-> v, responses |-> <<>>, isProcessing |-> FALSE,
   processingStep |-> "", editingResponseId |-> 0,
   hasProcessedInitialQuery |-> FALSE,
   seen |-> [isProcessing |-> FALSE, responses |-> 0],
   inFlight |-> {}, calls |-> 0, effectRuns |-> 0, sent |-> 0]

\* ChatProvider after its first render, with the backend connected or not:
\* no conversation, no current chat, no call pending
ChatMounted(connected) ==
  [connected |-> connected, conversations |-> {}, currentChatId |-> 0,
   backend |-> {}, pending |-> {}, deleted |-> {}, calls |-> 0,
   copy |-> "context", updated |-> {}, currentUpdated |-> FALSE,
   confirmed |-> {}]

\* ChatProvider at its first render: useState('checking') and
\* useState(navigator.onLine), no health check started yet
NetMounted(onLine) ==
  [isOnline |-> onLine, backendStatus |-> "checking", checks |-> {},
   calls |-> 0, events |-> 0]

\* RecentConversationsPage at its first render, over the list of the
\* context and the chats the backend stores: useState(''), useState([]),
\* useState(false), useState('all'); no call pending
RecentMounted(conversations, backend) ==
  [conversations |-> conversations, backend |-> backend,
   selectedChats |-> <<>>, isSelectionMode |-> FALSE,
   searchQuery |-> <<>>, filterBy |-> "all",
   pending |-> {}, calls |-> 0]

\* MainChatInterface at its first render: useState(''), useState(false);
\* no chat created, no navigation, the provider connected
MainMounted ==
  [query |-> "", isCreatingChat |-> FALSE, connected |-> TRUE,
   pending |-> {}, submits |-> 0, added |-> <<>>, navigated |-> <<>>]

PagesIdle ==
  /\ net = NetMounted(TRUE)
  /\ recent = RecentMounted({}, {})
  /\ main = MainMounted

HostIdle ==
  /\ app = AppIdle /\ ri = RiMounted("ri") /\ chat = ChatMounted(TRUE)
  /\ PagesIdle

Init ==
  /\ chartData \in ChartInputs
  /\ tree = NotRendered
  /\ firstTree = NotRendered
  /\ now = 0
  /\ currentAngle = Int2Num(0)
  /\ TruncIdle
  /\ HostIdle

\* React renders <ChartDisplay chartData={...} />
Render ==
  /\ tree' = ChartDisplay(chartData, now, currentAngle)
  /\ firstTree' = IF firstTree = NotRendered THEN tree' ELSE firstTree
  /\ currentAngle' = AngleAfter(tree', currentAngle)
  /\ UNCHANGED <<chartData, now, truncVars, hostVars, pageVars>>

Next == Render

Spec == Init /\ [][Next]_vars

(***************************************************************************)
(* Renders over time: the clock advances between renders of the same       *)
(* chartData, and other ChartDisplay elements of the page (other messages  *)
(* of the list) render in between.  The inputs are the specifications with *)
(* as many labels as values, the values drawn from RerenderValues.         *)
(***************************************************************************)
RerenderValues == {Int2Num(0), Int2Num(1)}

RerenderInputs ==
  {[present |-> TRUE, variant |-> v, type |-> t, title |-> "",
    labels |-> LabelsOf(Len(d)), data |-> d] :
      v \in Variants, t \in ChartTypes,
      d \in SeqsUpTo(RerenderValues, MaxSeries)}

RerenderInit ==
  /\ chartData \in RerenderInputs
  /\ tree = NotRendered
  /\ firstTree = NotRendered
  /\ now = 0
  /\ currentAngle = Int2Num(0)
  /\ TruncIdle
  /\ HostIdle

Tick ==
  /\ now < MaxClock
  /\ now' = now + 1
  /\ UNCHANGED <<chartData, tree, firstTree, currentAngle, truncVars, hostVars, pageVars>>

\* another element of the same component renders its own chartData
RenderOther ==
  \E other \in RerenderInputs :
     /\ other.variant = chartData.variant
     /\ other # chartData
     /\ currentAngle' =
          AngleAfter(ChartDisplay(other, now, currentAngle), currentAngle)
     /\ UNCHANGED <<chartData, tree, firstTree, now, truncVars, hostVars, pageVars>>

RerenderNext == Render \/ Tick \/ RenderOther

SpecRerender == RerenderInit /\ [][RerenderNext]_vars

(***************************************************************************)
(* Pies and doughnuts of many categories: up to MaxCategories entries, so  *)
(* that the series is longer than every palette (8, 6 and 5 colours).      *)
(***************************************************************************)
MaxCategories == 10

PaletteInputs ==
  {[present |-> TRUE, variant |-> v, type |-> t, title |-> "",
    labels |-> LabelsOf(n), data |-> [i \in 1..n |-> Int2Num(1)]] :
      v \in Variants, t \in {"pie", "doughnut"}, n \in 0..MaxCategories}

PaletteInit ==
  /\ chartData \in PaletteInputs
  /\ tree = NotRendered
  /\ firstTree = NotRendered
  /\ now = 0
  /\ currentAngle = Int2Num(0)
  /\ TruncIdle
  /\ HostIdle

SpecPalette == PaletteInit /\ [][Next]_vars

(***************************************************************************)
(* Line charts: series of up to MaxLinePoints entries, with as many        *)
(* labels, over values below, at and above zero, null and a string.        *)
(***************************************************************************)
MaxLinePoints == 3

LineValues ==
  {Int2Num(-2), Frac(-1, 10), Int2Num(0), Int2Num(5), Null, StrVal}

LineInputs ==
  {[present |-> TRUE, variant |-> v, type |-> "line", title |-> "",
    labels |-> LabelsOf(Len(d)), data |-> d] :
      v \in {"app", "ri", "pro"}, d \in SeqsUpTo(LineValues, MaxLinePoints)}

LineInit ==
  /\ chartData \in LineInputs
  /\ tree = NotRendered
  /\ firstTree = NotRendered
  /\ now = 0
  /\ currentAngle = Int2Num(0)
  /\ TruncIdle
  /\ HostIdle

SpecLine == LineInit /\ [][Next]_vars

(***************************************************************************)
(* The truncation sites, each applied once to a string.  A string is       *)
(* 1, 2, ..., n, or that followed by "...".                                *)
(***************************************************************************)
MaxTextLen == 52

Sites == {"lineLabel", "barLabel", "proLabel", "chatTitle", "queryTitle"}

Plain(n) == [c \in 1..n |-> c]

Texts ==
  {Plain(n) : n \in 0..MaxTextLen}
  \cup {Plain(n) \o Ellipsis : n \in 0..(MaxTextLen - 3)}

TruncateAt(s, t) ==
  CASE s = "lineLabel" -> TruncateLineLabel(t)
    [] s = "barLabel" -> TruncateBarLabel(t)
    [] s = "proLabel" -> TruncateProLabel(t)
    [] s = "chatTitle" -> TruncateChatTitle(t)
    [] OTHER -> TruncateQueryTitle(t)

TruncInit ==
  /\ site \in Sites
  /\ text \in Texts
  /\ shown = NotShown
  /\ ChartIdle
  /\ HostIdle

Truncate ==
  /\ ~shown.done
  /\ shown' = [NotShown EXCEPT !.done = TRUE, !.text = TruncateAt(site, text)]
  /\ UNCHANGED <<site, text, chartVars, hostVars, pageVars>>

\* the truncation of the site applied to its own result
TruncateAgain ==
  /\ shown.done /\ ~shown.again
  /\ shown' = [shown EXCEPT !.again = TRUE,
                            !.twice = TruncateAt(site, shown.text)]
  /\ UNCHANGED <<site, text, chartVars, hostVars, pageVars>>

TruncNext == Truncate \/ TruncateAgain

SpecTruncate == TruncInit /\ [][TruncNext]_vars

(***************************************************************************)
(* App.js: the chat page.  app holds the React state of the page,          *)
(*   messages      the list, one kind per message: "user", or for an ai    *)
(*                 message "answer", "error" (HTTP error) or "failed"      *)
(*   currentQuery  the input: "" empty, " " blank, "q" a question          *)
(*   isLoading     the flag                                                *)
(*   inFlight      the fetch calls that have not settled                   *)
(*   calls         the calls of handleSubmit so far                        *)
(* An event handler and the continuation of an await each run to their end *)
(* before the next event, and the state they set is rendered before the    *)
(* next input event is handled.                                            *)
(***************************************************************************)
MaxCalls == 4

Queries == {"", " ", "q"}

Trim(q) == IF q = " " THEN "" ELSE q

\* the backend outcomes and the ai message each appends
Outcomes == {"ok", "httpError", "networkFailure"}

AiMessage(outcome) ==
  CASE outcome = "ok" -> "answer"
    [] outcome = "httpError" -> "error"
    [] OTHER -> "failed"

\* a guard that looks at the query alone
SubmitAcceptedNonBlank(a) == Trim(a.currentQuery) # ""

\* if (!currentQuery.trim() || isLoading) return;
SubmitAccepted(a) == Trim(a.currentQuery) # "" /\ ~a.isLoading

AppInit ==
  /\ HostIdle
  /\ ChartIdle
  /\ TruncIdle

\* onChange of the input, handleSuggestedQuery
AppSetQuery ==
  \E q \in Queries :
     /\ q # app.currentQuery
     /\ app' = [app EXCEPT !.currentQuery = q]
     /\ UNCHANGED <<chartVars, truncVars, ri, chat, pageVars>>

\* handleSubmit, up to the start of the fetch
AppHandleSubmit ==
  /\ app.calls < MaxCalls
  /\ app' = IF SubmitAccepted(app)
            THEN [app EXCEPT !.messages = Append(@, "user"),
                             !.isLoading = TRUE,
                             !.currentQuery = "",
                             !.inFlight = @ + 1,
                             !.calls = @ + 1]
            ELSE [app EXCEPT !.calls = @ + 1]
  /\ UNCHANGED <<chartVars, truncVars, ri, chat, pageVars>>

\* the fetch settles: the rest of the async function, try, catch and finally
AppSettle ==
  \E outcome \in Outcomes :
     /\ app.inFlight > 0
     /\ app' = [app EXCEPT !.messages = Append(@, AiMessage(outcome)),
                           !.isLoading = FALSE,
                           !.inFlight = @ - 1]
     /\ UNCHANGED <<chartVars, truncVars, ri, chat, pageVars>>

AppNext == AppSetQuery \/ AppHandleSubmit \/ AppSettle

\* every fetch settles: with a response, or with a network failure
SpecApp == AppInit /\ [][AppNext]_vars /\ WF_vars(AppSettle)

(***************************************************************************)
(* ResponseInterface.  ri holds the React state of the component,          *)
(*   responses          one kind per response: "initial", "followUp" or    *)
(*                      "edit", the query that produced it; a response is  *)
(*                      named by its place in the list                     *)
(*   isProcessing, processingStep ("" or "phase"), editingResponseId (0    *)
(*                      for null), hasProcessedInitialQuery (the ref of    *)
(*                      part_001)                                          *)
(*   seen               isProcessing and responses.length of the render    *)
(*                      whose closures the effects and handlers run in     *)
(*   inFlight           the processQuery calls that have not returned:     *)
(*                      [n, kind, replace, stage], stage "phases" during   *)
(*                      the timers and "fetch" once the request is sent    *)
(*   calls, effectRuns  the calls of processQuery that went past its guard *)
(*                      and the runs of the mount effects so far           *)
(*   sent               the requests sent for the initial query            *)
(***************************************************************************)
MaxRiCalls == 3
MaxEffectRuns == 2

RiVariants == {"ri", "pro"}

\* processQuery up to its first await
StartQuery(r, kind, replace) ==
  IF r.variant = "pro" /\ r.seen.isProcessing /\ replace = 0
  THEN r
  ELSE [r EXCEPT !.isProcessing = TRUE,
                 !.processingStep = "phase",
                 !.calls = @ + 1,
                 !.inFlight = @ \cup {[n |-> r.calls + 1, kind |-> kind,
                                       replace |-> replace,
                                       stage |-> "phases"]}]

\* useEffect(() => { if (query && responses.length === 0 ...) ... }, [query])
\* and, in part_001, the effect after it that clears the ref
MountEffects(r) ==
  IF r.variant = "ri"
  THEN (IF r.seen.responses = 0 THEN StartQuery(r, "initial", 0) ELSE r)
  ELSE LET first ==
             IF r.seen.responses = 0 /\ ~r.hasProcessedInitialQuery
                /\ ~r.seen.isProcessing
             THEN StartQuery([r EXCEPT !.hasProcessedInitialQuery = TRUE],
                             "initial", 0)
             ELSE r
       IN  [first EXCEPT !.hasProcessedInitialQuery = FALSE]

RiSynced == ri.seen = [isProcessing |-> ri.isProcessing,
                       responses |-> Len(ri.responses)]

RiInit ==
  /\ ri \in {RiMounted(v) : v \in RiVariants}
  /\ app = AppIdle
  /\ chat = ChatMounted(TRUE)
  /\ PagesIdle
  /\ ChartIdle
  /\ TruncIdle

\* the effects of the mount run, once or again on the same render
RiMountEffects ==
  /\ ri.effectRuns < MaxEffectRuns
  /\ ri.calls < MaxRiCalls
  /\ ri' = [MountEffects(ri) EXCEPT !.effectRuns = @ + 1]
  /\ UNCHANGED <<chartVars, truncVars, app, chat, pageVars>>

\* React renders the state that was set
RiRender ==
  /\ ~RiSynced
  /\ ri' = [ri EXCEPT !.seen = [isProcessing |-> ri.isProcessing,
                                responses |-> Len(ri.responses)]]
  /\ UNCHANGED <<chartVars, truncVars, app, chat, pageVars>>

\* handleFollowUpSubmit; its input is on the page when
\* !isProcessing && responses.length > 0
RiFollowUp ==
  /\ RiSynced /\ ~ri.isProcessing /\ ri.responses # <<>>
  /\ ri.calls < MaxRiCalls
  /\ ri' = StartQuery(ri, "followUp", 0)
  /\ UNCHANGED <<chartVars, truncVars, app, chat, pageVars>>

\* startEditingResponse, the button of a response that is not being edited
RiStartEdit ==
  \E id \in 1..Len(ri.responses) :
     /\ RiSynced /\ ri.editingResponseId # id
     /\ ri' = [ri EXCEPT !.editingResponseId = id]
     /\ UNCHANGED <<chartVars, truncVars, app, chat, pageVars>>

\* cancelEditingResponse
RiCancelEdit ==
  /\ RiSynced /\ ri.editingResponseId # 0
  /\ ri' = [ri EXCEPT !.editingResponseId = 0]
  /\ UNCHANGED <<chartVars, truncVars, app, chat, pageVars>>

\* saveEditedResponse, the Save & Regenerate button of the edited response
RiSaveEdit ==
  /\ RiSynced /\ ri.editingResponseId # 0
  /\ ri.calls < MaxRiCalls
  /\ ri' = StartQuery(ri, "edit", ri.editingResponseId)
  /\ UNCHANGED <<chartVars, truncVars, app, chat, pageVars>>

\* the timers of a call run out: the last setProcessingStep, then the fetch
\* (a timer or a response is handled after the pending render)
RiSend ==
  \E c \in ri.inFlight :
     /\ RiSynced /\ c.stage = "phases"
     /\ ri' = [ri EXCEPT !.processingStep = "phase",
                         !.sent = IF c.kind = "initial" THEN @ + 1 ELSE @,
                         !.inFlight = (@ \ {c})
                                        \cup {[c EXCEPT !.stage = "fetch"]}]
     /\ UNCHANGED <<chartVars, truncVars, app, chat, pageVars>>

\* the fetch of a call settles: setResponses (try or catch), then finally
RiReturn ==
  \E c \in ri.inFlight :
     /\ RiSynced /\ c.stage = "fetch"
     /\ ri' = [ri EXCEPT !.responses = IF c.replace # 0
                                       THEN [@ EXCEPT ![c.replace] = c.kind]
                                       ELSE Append(@, c.kind),
                         !.isProcessing = FALSE,
                         !.processingStep = "",
                         !.editingResponseId = 0,
                         !.inFlight = @ \ {c}]
     /\ UNCHANGED <<chartVars, truncVars, app, chat, pageVars>>

RiNext ==
  \/ RiMountEffects \/ RiRender \/ RiFollowUp \/ RiStartEdit
  \/ RiCancelEdit \/ RiSaveEdit \/ RiSend \/ RiReturn

SpecResponse == RiInit /\ [][RiNext]_vars

(***************************************************************************)
(* ChatContext.  chat holds the state of the ChatProvider and of its       *)
(* backend,                                                                *)
(*   connected      backendStatus === 'connected'                          *)
(*   conversations  the ids of the chats of the list                       *)
(*   currentChatId  0 for null                                             *)
(*   backend        the ids of the chats the backend stores                *)
(*   pending        the calls that wait for the backend: [n, op, id,       *)
(*                  seenCurrent, stage, ok], seenCurrent the currentChatId *)
(*                  of the closure the call runs in, stage "sent" until    *)
(*                  the backend has handled the request                    *)
(*   deleted        the ids for which deleteChat has returned true         *)
(*   calls          the calls so far; call n creates the chat of id n      *)
(***************************************************************************)
MaxChatCalls == 4

\* the call of an operation of the context, up to its await; without a
\* backend there is no await and the call runs to its end
ChatCall(c, op, id) ==
  LET n == c.calls + 1
      started == [c EXCEPT !.calls = n]
  IN  IF c.connected
      THEN [started EXCEPT !.pending =
              @ \cup {[n |-> n, op |-> op, id |-> id,
                       seenCurrent |-> c.currentChatId,
                       stage |-> "sent", ok |-> FALSE]}]
      ELSE CASE op = "add" ->
                  [started EXCEPT !.conversations = @ \cup {n},
                                  !.currentChatId = n]
             [] op = "load" ->
                  IF id \in c.conversations
                  THEN [started EXCEPT !.currentChatId = id]
                  ELSE started
             [] OTHER ->
                  [started EXCEPT !.conversations = @ \ {id},
                                  !.currentChatId =
                                     IF @ = id THEN 0 ELSE @,
                                  !.deleted = @ \cup {id}]

\* the rest of a call once chatApiService has answered
ChatResume(c, call) ==
  LET done == [c EXCEPT !.pending = @ \ {call}]
  IN  IF ~call.ok THEN done
      ELSE CASE call.op = "add" ->
                  [done EXCEPT !.conversations = @ \cup {call.id},
                               !.currentChatId = call.id]
             [] call.op = "load" ->
                  [done EXCEPT !.currentChatId = call.id]
             [] OTHER ->
                  [done EXCEPT !.conversations = @ \ {call.id},
                               !.currentChatId =
                                  IF call.seenCurrent = call.id
                                  THEN 0 ELSE @,
                               !.deleted = @ \cup {call.id}]

ChatInit ==
  /\ chat \in {ChatMounted(connected) : connected \in BOOLEAN}
  /\ app = AppIdle
  /\ ri = RiMounted("ri")
  /\ PagesIdle
  /\ ChartIdle
  /\ TruncIdle

addNewChat ==
  /\ chat.calls < MaxChatCalls
  /\ chat' = ChatCall(chat, "add", 0)
  /\ UNCHANGED <<chartVars, truncVars, app, ri, pageVars>>

loadChat ==
  \E id \in chat.conversations :
     /\ chat.calls < MaxChatCalls
     /\ chat' = ChatCall(chat, "load", id)
     /\ UNCHANGED <<chartVars, truncVars, app, ri, pageVars>>

deleteChat ==
  \E id \in chat.conversations :
     /\ chat.calls < MaxChatCalls
     /\ chat' = ChatCall(chat, "delete", id)
     /\ UNCHANGED <<chartVars, truncVars, app, ri, pageVars>>

\* the backend handles a request, or the request fails
ChatBackend ==
  \E call \in chat.pending, fails \in BOOLEAN :
     /\ call.stage = "sent"
     /\ LET id == IF call.op = "add" THEN call.n ELSE call.id
            ok == ~fails /\ (call.op = "add" \/ id \in chat.backend)
        IN  chat' = [chat EXCEPT
               !.backend = IF ~ok THEN @
                           ELSE IF call.op = "add" THEN @ \cup {id}
                           ELSE IF call.op = "delete" THEN @ \ {id}
                           ELSE @,
               !.pending = (@ \ {call})
                             \cup {[call EXCEPT !.stage = "answered",
                                                !.id = id, !.ok = ok]}]
     /\ UNCHANGED <<chartVars, truncVars, app, ri, pageVars>>

\* the answer arrives and the call runs to its end
ChatAnswer ==
  \E call \in chat.pending :
     /\ call.stage = "answered"
     /\ chat' = ChatResume(chat, call)
     /\ UNCHANGED <<chartVars, truncVars, app, ri, pageVars>>

ChatNext == addNewChat \/ loadChat \/ deleteChat \/ ChatBackend \/ ChatAnswer

SpecChat == ChatInit /\ [][ChatNext]_vars

(***************************************************************************)
(* updateChat of the two copies of the provider, ChatContext.jsx           *)
(* ("context") and part_000, over a list of two chats.                     *)
(*   copy            the copy of the provider                               *)
(*   updated         the ids of the chats of conversations that carry the   *)
(*                   updates                                                *)
(*   currentUpdated  whether currentChat carries the updates                *)
(*   confirmed       the ids for which the backend has confirmed an update  *)
(***************************************************************************)
ProviderCopies == {"context", "part_000"}

ListedChats == {1, 2}

\* setConversations(prev => prev.map(chat => chat.id === chatId ? ...))
UpdatedLocally(c, chatId) ==
  [c EXCEPT !.updated = @ \cup ({chatId} \cap c.conversations)]

UpdateAwaited(c, chatId) ==
  [c EXCEPT !.calls = @ + 1,
            !.pending = @ \cup {[n |-> c.calls + 1, op |-> "update",
                                 id |-> chatId,
                                 seenCurrent |-> c.currentChatId,
                                 stage |-> "sent", ok |-> FALSE]}]

\* updateChat up to its await, or to its end where it does not await
UpdateCall(c, chatId) ==
  IF c.copy = "context"
  THEN IF c.connected THEN UpdateAwaited(c, chatId)
       ELSE [UpdatedLocally(c, chatId) EXCEPT
               !.currentUpdated = @ \/ c.currentChatId = chatId]
  ELSE LET local == UpdatedLocally(c, chatId)
       IN  IF c.connected /\ chatId \in c.conversations /\ chatId \in c.backend
           THEN UpdateAwaited(local, chatId)
           ELSE local

\* the rest of updateChat once chatApiService has answered
UpdateResume(c, call) ==
  LET done == [c EXCEPT !.pending = @ \ {call},
                        !.confirmed = IF call.ok THEN @ \cup {call.id} ELSE @]
  IN  IF c.copy = "context" /\ call.ok
      THEN [UpdatedLocally(done, call.id) EXCEPT
              !.currentUpdated = @ \/ call.seenCurrent = call.id]
      ELSE done

UpdateInit ==
  /\ \E copy \in ProviderCopies, connected \in BOOLEAN,
        backend \in SUBSET ListedChats, current \in ListedChats \cup {0} :
        chat = [ChatMounted(connected) EXCEPT
                  !.copy = copy, !.conversations = ListedChats,
                  !.backend = backend, !.currentChatId = current]
  /\ app = AppIdle
  /\ ri = RiMounted("ri")
  /\ PagesIdle
  /\ ChartIdle
  /\ TruncIdle

updateChat ==
  \E chatId \in chat.conversations :
     /\ chat.calls < MaxChatCalls
     /\ chat' = UpdateCall(chat, chatId)
     /\ UNCHANGED <<chartVars, truncVars, app, ri, pageVars>>

UpdateAnswer ==
  \E call \in chat.pending :
     /\ call.stage = "answered"
     /\ chat' = UpdateResume(chat, call)
     /\ UNCHANGED <<chartVars, truncVars, app, ri, pageVars>>

UpdateNext == updateChat \/ ChatBackend \/ UpdateAnswer

SpecUpdate == UpdateInit /\ [][UpdateNext]_vars

(***************************************************************************)
(* The health check of ChatContext.jsx and the online and offline events   *)
(* of the browser.                                                         *)
(*   isOnline       the state isOnline                                      *)
(*   backendStatus  the state backendStatus                                 *)
(*   checks         the calls of checkBackendHealth that wait for getHealth *)
(*   calls, events  the health checks and the browser events so far         *)
(***************************************************************************)
MaxNetEvents == 4

HealthAnswers == {"online", "offline", "throws"}

\* checkBackendHealth up to its await
HealthCheckSent(s) ==
  [s EXCEPT !.backendStatus = "checking",
            !.calls = @ + 1,
            !.checks = @ \cup {s.calls + 1}]

\* the status checkBackendHealth sets once getHealth has answered
HealthStatus(answer) ==
  CASE answer = "online" -> "connected"
    [] answer = "throws" -> "unavailable"
    [] OTHER -> "degraded"

NetInit ==
  /\ net \in {NetMounted(onLine) : onLine \in BOOLEAN}
  /\ app = AppIdle /\ ri = RiMounted("ri") /\ chat = ChatMounted(TRUE)
  /\ recent = RecentMounted({}, {})
  /\ main = MainMounted
  /\ ChartIdle
  /\ TruncIdle

\* the effect of the mount
checkBackendHealth ==
  /\ net.calls = 0
  /\ net' = HealthCheckSent(net)
  /\ UNCHANGED <<chartVars, truncVars, hostVars, recent, main>>

handleOnline ==
  /\ net.events < MaxNetEvents
  /\ ~net.isOnline
  /\ net' = [HealthCheckSent(net) EXCEPT !.isOnline = TRUE,
                                         !.events = @ + 1]
  /\ UNCHANGED <<chartVars, truncVars, hostVars, recent, main>>

handleOffline ==
  /\ net.events < MaxNetEvents
  /\ net.isOnline
  /\ net' = [net EXCEPT !.isOnline = FALSE,
                        !.backendStatus = "unavailable",
                        !.events = @ + 1]
  /\ UNCHANGED <<chartVars, truncVars, hostVars, recent, main>>

\* getHealth answers a pending check, which runs to its end
HealthAnswer ==
  \E n \in net.checks, answer \in HealthAnswers :
     /\ net' = [net EXCEPT !.checks = @ \ {n},
                           !.backendStatus = HealthStatus(answer)]
     /\ UNCHANGED <<chartVars, truncVars, hostVars, recent, main>>

NetNext == checkBackendHealth \/ handleOnline \/ handleOffline \/ HealthAnswer

SpecNet == NetInit /\ [][NetNext]_vars

(***************************************************************************)
(* RecentConversationsPage.jsx: the selection over the list of the         *)
(* context.                                                                *)
(*   conversations  the list of the context, a set of chats [id,           *)
(*                  isStarred, status, backendData]; ids are unique         *)
(*   backend        the ids of the chats the backend stores                *)
(*   selectedChats  the array selectedChats                                 *)
(*   searchQuery, filterBy, isSelectionMode   the states of these names     *)
(*   pending        the calls that wait for chatAPI: [n, op, id]            *)
(*   calls          the calls of chatAPI so far                             *)
(***************************************************************************)
MaxRecentCalls == 3

BackendChats == {1, 2}

\* a chat MainChatInterface created without the backend
LocalChat == 3

SearchQueries == {<<>>, <<"a">>, <<"z">>}

Filters == {"all", "starred", "shared"}

BulkActions == {"delete", "archive", "star"}

TitleOf(id) ==
  CASE id = 1 -> <<"A">> [] id = 2 -> <<"b">> [] OTHER -> <<"a", "b">>

CategoryOf(id) == <<"c">>

toLowerCase(s) == [i \in 1..Len(s) |-> IF s[i] = "A" THEN "a" ELSE s[i]]

Includes(s, q) ==
  \E i \in 1..(Len(s) + 1) :
     /\ i + Len(q) - 1 <= Len(s)
     /\ SubSeq(s, i, i + Len(q) - 1) = q

\* chatAPI.transformChatForFrontend of the chat the backend stores
transformChatForFrontend(id) ==
  [id |-> id, isStarred |-> FALSE, status |-> "active", backendData |-> TRUE]

ChatIdsOf(conversations) == {c.id : c \in conversations}

RECURSIVE InOrder(_)
InOrder(ids) ==
  IF ids = {} THEN <<>>
  ELSE LET least == CHOOSE i \in ids : \A j \in ids : i <= j
       IN  <<least>> \o InOrder(ids \ {least})

\* the ids of filteredConversations, in the order of the list
filteredConversations(r) ==
  InOrder({c.id : c \in
    {c \in r.conversations :
       /\ \/ Includes(toLowerCase(TitleOf(c.id)), toLowerCase(r.searchQuery))
          \/ Includes(toLowerCase(CategoryOf(c.id)),
                      toLowerCase(r.searchQuery))
       /\ \/ r.filterBy = "all"
          \/ r.filterBy = "starred" /\ c.isStarred}})

SeqToSet(s) == {s[i] : i \in 1..Len(s)}

\* loadRealChats up to its await
LoadSent(r) ==
  [r EXCEPT !.calls = @ + 1,
            !.pending = @ \cup {[n |-> r.calls + 1, op |-> "load", id |-> 0]}]

\* deleteRealChat up to its await, or to its end when the chat is not in
\* the list or has no _backendData
DeleteSent(r, chatId) ==
  IF \E c \in r.conversations : c.id = chatId /\ c.backendData
  THEN [r EXCEPT !.calls = @ + 1,
                 !.pending = @ \cup {[n |-> r.calls + 1, op |-> "delete",
                                      id |-> chatId]}]
  ELSE [r EXCEPT !.conversations = {c \in @ : c.id # chatId}]

RECURSIVE DeleteEach(_, _)
DeleteEach(r, chatIds) ==
  IF chatIds = <<>> THEN r
  ELSE DeleteEach(DeleteSent(r, Head(chatIds)), Tail(chatIds))

Cleared(r) == [r EXCEPT !.selectedChats = <<>>, !.isSelectionMode = FALSE]

RecentInit ==
  /\ \E backend \in SUBSET BackendChats, local \in BOOLEAN :
        recent = RecentMounted(
           IF local
           THEN {[id |-> LocalChat, isStarred |-> FALSE, status |-> "active",
                  backendData |-> FALSE]}
           ELSE {}, backend)
  /\ app = AppIdle /\ ri = RiMounted("ri") /\ chat = ChatMounted(TRUE)
  /\ net = NetMounted(TRUE)
  /\ main = MainMounted
  /\ ChartIdle
  /\ TruncIdle

\* the effect of the mount
loadRealChats ==
  /\ recent.calls = 0
  /\ recent' = LoadSent(recent)
  /\ UNCHANGED <<chartVars, truncVars, hostVars, net, main>>

handleRefresh ==
  /\ recent.calls > 0
  /\ recent.calls < MaxRecentCalls
  /\ recent' = LoadSent(recent)
  /\ UNCHANGED <<chartVars, truncVars, hostVars, net, main>>

setSearchQuery ==
  \E q \in SearchQueries \ {recent.searchQuery} :
     /\ recent.calls > 0
     /\ recent' = [recent EXCEPT !.searchQuery = q]
     /\ UNCHANGED <<chartVars, truncVars, hostVars, net, main>>

\* the filter changes and the effect of loadRealChats runs again
setFilterBy ==
  \E f \in Filters \ {recent.filterBy} :
     /\ recent.calls > 0
     /\ recent.calls < MaxRecentCalls
     /\ recent' = LoadSent([recent EXCEPT !.filterBy = f])
     /\ UNCHANGED <<chartVars, truncVars, hostVars, net, main>>

toggleChatSelection ==
  \E chatId \in SeqToSet(filteredConversations(recent)) :
     /\ recent.calls > 0
     /\ LET prev == recent.selectedChats
            newSelection ==
              IF chatId \in SeqToSet(prev)
              THEN SelectSeq(prev, LAMBDA id : id # chatId)
              ELSE Append(prev, chatId)
        IN  recent' = [recent EXCEPT
                         !.selectedChats = newSelection,
                         !.isSelectionMode = Len(newSelection) > 0]
     /\ UNCHANGED <<chartVars, truncVars, hostVars, net, main>>

selectAllChats ==
  /\ recent.isSelectionMode
  /\ recent' = [recent EXCEPT
                  !.selectedChats = filteredConversations(recent),
                  !.isSelectionMode = TRUE]
  /\ UNCHANGED <<chartVars, truncVars, hostVars, net, main>>

clearSelection ==
  /\ recent.isSelectionMode
  /\ recent' = Cleared(recent)
  /\ UNCHANGED <<chartVars, truncVars, hostVars, net, main>>

performBulkAction ==
  \E action \in BulkActions :
     /\ recent.isSelectionMode
     /\ LET selected == SeqToSet(recent.selectedChats)
            after ==
              CASE action = "delete" ->
                     DeleteEach(recent, recent.selectedChats)
                [] action = "archive" ->
                     [recent EXCEPT !.conversations =
                        {IF c.id \in selected
                         THEN [c EXCEPT !.status = "archived"] ELSE c :
                         c \in @}]
                [] OTHER ->
                     [recent EXCEPT !.conversations =
                        {IF c.id \in selected
                         THEN [c EXCEPT !.isStarred = ~@] ELSE c :
                         c \in @}]
        IN  /\ after.calls <= MaxRecentCalls
            /\ recent' = Cleared(after)
     /\ UNCHANGED <<chartVars, truncVars, hostVars, net, main>>

\* the delete button of one conversation of the list
deleteRealChat ==
  \E chatId \in SeqToSet(filteredConversations(recent)) :
     /\ recent.calls > 0
     /\ recent.calls < MaxRecentCalls
     /\ recent' = DeleteSent(recent, chatId)
     /\ UNCHANGED <<chartVars, truncVars, hostVars, net, main>>

\* chatAPI answers a pending call, which runs to its end
RecentAnswer ==
  \E call \in recent.pending, ok \in BOOLEAN :
     /\ LET done == [recent EXCEPT !.pending = @ \ {call}]
        IN  recent' =
              IF call.op = "load"
              THEN IF ok
                   THEN [done EXCEPT !.conversations =
                           {transformChatForFrontend(id) : id \in done.backend}]
                   ELSE done
              ELSE [done EXCEPT
                      !.backend = IF ok THEN @ \ {call.id} ELSE @,
                      !.conversations = {c \in @ : c.id # call.id}]
     /\ UNCHANGED <<chartVars, truncVars, hostVars, net, main>>

RecentNext ==
  \/ loadRealChats \/ handleRefresh \/ setSearchQuery \/ setFilterBy
  \/ toggleChatSelection \/ selectAllChats \/ clearSelection
  \/ performBulkAction \/ deleteRealChat \/ RecentAnswer

SpecRecent == RecentInit /\ [][RecentNext]_vars

(***************************************************************************)
(* MainChatInterface.jsx: handleSubmit over addNewChat of ChatContext.jsx. *)
(*   query, isCreatingChat   the states of these names                      *)
(*   connected      backendStatus === 'connected' in the provider           *)
(*   pending        the calls of chatAPI.createChat that wait for the       *)
(*                  backend: [by, submit], by the page or by addNewChat of  *)
(*                  the provider, for the accepted submit of that number    *)
(*   submits        the accepted submits so far                             *)
(*   added          the chats added to conversations: [submit, id]          *)
(*   navigated      the calls of navigate: [submit, id]                     *)
(* An id is [kind, n]: the chat_id of the n-th chat the backend created,    *)
(* the fallback id chat_<time> or the id temp_<time> of the provider.       *)
(***************************************************************************)
MaxSubmits == 3

\* the chat_id of a chat the backend creates: one more than those it has
\* created for the calls answered so far
BackendId(m) ==
  [kind |-> "backend",
   n |-> 1 + Cardinality({a \in SeqToSet(m.added) \cup SeqToSet(m.navigated) :
                            a.id.kind = "backend"})]

\* addNewChat of the provider up to its await, or to its end without a
\* backend, where it adds a temporary chat
ContextAddNewChat(m, submit) ==
  IF m.connected
  THEN [m EXCEPT !.pending = @ \cup {[by |-> "context", submit |-> submit]}]
  ELSE [m EXCEPT !.added =
          Append(@, [submit |-> submit,
                     id |-> [kind |-> "temp", n |-> submit]])]

\* the rest of handleSubmit once chatAPI.createChat has answered: the chat
\* of the answer or the fallback chat goes to addNewChat and to navigate,
\* and the finally block clears isCreatingChat
SubmitResume(m, call, ok) ==
  LET id == IF ok THEN BackendId(m)
            ELSE [kind |-> "chat", n |-> call.submit]
      answered == [m EXCEPT !.pending = @ \ {call}]
      handed == ContextAddNewChat(answered, call.submit)
  IN  [handed EXCEPT
         !.navigated = Append(@, [submit |-> call.submit, id |-> id]),
         !.isCreatingChat = FALSE]

MainInit ==
  /\ main \in {[MainMounted EXCEPT !.connected = c] : c \in BOOLEAN}
  /\ app = AppIdle /\ ri = RiMounted("ri") /\ chat = ChatMounted(TRUE)
  /\ net = NetMounted(TRUE)
  /\ recent = RecentMounted({}, {})
  /\ ChartIdle
  /\ TruncIdle

MainSetQuery ==
  \E q \in Queries \ {main.query} :
     /\ main' = [main EXCEPT !.query = q]
     /\ UNCHANGED <<chartVars, truncVars, hostVars, net, recent>>

handleSubmit ==
  /\ main.submits < MaxSubmits
  /\ Trim(main.query) # ""
  /\ ~main.isCreatingChat
  /\ main' = [main EXCEPT
                !.isCreatingChat = TRUE,
                !.submits = @ + 1,
                !.pending = @ \cup {[by |-> "page", submit |-> main.submits + 1]}]
  /\ UNCHANGED <<chartVars, truncVars, hostVars, net, recent>>

\* chatAPI.createChat answers the page, with a chat or with success false
MainCreateAnswer ==
  \E call \in main.pending, ok \in BOOLEAN :
     /\ call.by = "page"
     /\ main' = SubmitResume(main, call, ok)
     /\ UNCHANGED <<chartVars, truncVars, hostVars, net, recent>>

\* chatApiService.createChat answers addNewChat of the provider
ContextCreateAnswer ==
  \E call \in main.pending, ok \in BOOLEAN :
     /\ call.by = "context"
     /\ main' = [main EXCEPT
                   !.pending = @ \ {call},
                   !.added = IF ok
                             THEN Append(@, [submit |-> call.submit,
                                             id |-> BackendId(main)])
                             ELSE @]
     /\ UNCHANGED <<chartVars, truncVars, hostVars, net, recent>>

MainNext ==
  MainSetQuery \/ handleSubmit \/ MainCreateAnswer \/ ContextCreateAnswer

SpecMain ==
  /\ MainInit
  /\ [][MainNext]_vars
  /\ WF_vars(MainCreateAnswer)
  /\ WF_vars(ContextCreateAnswer)

(***************************************************************************)
(* Properties of one render.                                               *)
(***************************************************************************)
Rendered == tree.status \in {"ok", "threw"}

EqualLength == Len(chartData.labels) = Len(chartData.data)

\* a specification as the data model has it: as many labels as values,
\* every value a number
AllNumbers == \A i \in 1..Len(chartData.data) : IsFin(chartData.data[i])

Total == SumNumeric(chartData.data)

IsPie == tree.status = "ok" /\ tree.builder \in {"pie", "doughnut"}

RECURSIVE SumField(_, _)
SumField(rows, f) ==
  IF rows = <<>> THEN Int2Num(0)
  ELSE NumAdd(rows[1][f], SumField(Tail(rows), f))

\* C1: a render of a specification with as many labels as values never
\* raises, whatever the chart type and the number of entries.
C1_NeverRaises == (Rendered /\ EqualLength) => tree.status # "threw"

\* C2: a render of a specification whose labels and values differ in number
\* does not raise and returns an empty chart (the error description that
\* the claim adds has no counterpart in any tree the code builds).
C2_MismatchReported ==
  (Rendered /\ ~EqualLength) =>
     /\ tree.status # "threw"
     /\ tree.bars = <<>> /\ tree.slices = <<>> /\ tree.legend = <<>>
     /\ tree.points = <<>>

\* C4: the builder is chosen by the type: pie, doughnut and line select
\* their own builder, every other type and a missing type the bar builder.
C4_DispatchByType ==
  (tree.status = "ok" /\ EqualLength /\ AllNumbers) =>
     /\ tree.builder =
          (IF chartData.type \in {"pie", "doughnut", "line"}
           THEN chartData.type ELSE "bar")
     /\ (tree.builder = "doughnut") = (tree.innerRadius > 0)

\* C5: with a total of zero every slice angle and every legend percentage
\* is 0 and no angle or percentage is NaN.
C5_ZeroTotal ==
  (IsPie /\ EqualLength /\ AllNumbers /\ Total = Int2Num(0)) =>
     /\ \A i \in 1..Len(tree.slices) :
          /\ tree.slices[i].sliceAngle = Int2Num(0)
          /\ tree.slices[i].percentage = Int2Num(0)
          /\ ~IsNaN(tree.slices[i].startAngle)
          /\ ~IsNaN(tree.slices[i].endAngle)
     /\ \A i \in 1..Len(tree.legend) :
          tree.legend[i].percentage = Int2Num(0)

\* C6: with a total above zero the percentages of the legend entries sum
\* to 100.
C6_PercentageSum ==
  (IsPie /\ EqualLength /\ AllNumbers /\ tree.legend # <<>>
         /\ NumGt(Total, Int2Num(0))) =>
     SumField(tree.legend, "percentage") = Int2Num(100)

\* C7: with a total above zero the slice angles sum to 360 degrees and the
\* running angle ends one full turn after its start.
C7_AngleClosure ==
  (IsPie /\ EqualLength /\ NumGt(Total, Int2Num(0))) =>
     /\ SumField(tree.slices, "sliceAngle") = Int2Num(360)
     /\ currentAngle = Int2Num(360)

\* C8: a bar is value / max * 100 percent of the track and at least the
\* minimum of 8 percent when max > 0, and the minimum when max = 0.
C8_BarLength ==
  (tree.status = "ok" /\ tree.builder = "bar" /\ EqualLength /\ AllNumbers) =>
     \A i \in 1..Len(tree.bars) :
        LET maxValue == MaxOf(chartData.data)
            share == NumMul(NumDiv(chartData.data[i], maxValue), Int2Num(100))
        IN  /\ NumGt(maxValue, Int2Num(0)) =>
                 tree.bars[i].width = Max2(share, Int2Num(MinBarPercent))
            /\ maxValue = Int2Num(0) =>
                 tree.bars[i].width = Int2Num(MinBarPercent)

\* C9: in one line chart a smaller value never projects above a larger one.
C9_MonotonicScale ==
  (tree.status = "ok" /\ tree.builder = "line" /\ EqualLength /\ AllNumbers) =>
     \A i, j \in 1..Len(tree.points) :
        NumLt(tree.points[i].value, tree.points[j].value) =>
           ~NumGt(tree.points[i].height, tree.points[j].height)
           /\ ~IsNaN(tree.points[i].height) /\ ~IsNaN(tree.points[j].height)

(***************************************************************************)
(* Properties of renders over time (SpecRerender).                         *)
(***************************************************************************)
BothRendered == tree.status # "none" /\ firstTree.status # "none"

Budget(s) ==
  CASE s = "lineLabel" -> LineLabelMax
    [] s = "barLabel" -> BarLabelMax
    [] s = "proLabel" -> ProLabelMax
    [] OTHER -> TitleMax

C11_TruncateIdempotent == shown.again => shown.twice = shown.text

\* a label over the budget of its site, cut by the first application and
\* returned as it is by the second
C11_Witness ==
  /\ shown.again
  /\ site \in {"lineLabel", "barLabel", "proLabel"}
  /\ Len(text) > Budget(site)
  /\ shown.text # text
  /\ Len(shown.text) > Budget(site) - 1
  /\ shown.twice = shown.text

IsEmptySeries ==
  chartData.present /\ chartData.labels = <<>> /\ chartData.data = <<>>

\* C13: a specification with no labels and no values renders, for every
\* chart type, without an error and to a tree with no bar, no arc, no
\* point and no legend entry, whose header counts 0 data points.
C13_EmptySeries ==
  (tree.status # "none" /\ IsEmptySeries) =>
     /\ tree.status = "ok"
     /\ tree.bars = <<>> /\ tree.slices = <<>> /\ tree.legend = <<>>
     /\ tree.points = <<>> /\ tree.xLabels = <<>>
     /\ tree.dataPoints = 0

\* the doughnut of an empty series, rendered
C13_Witness ==
  /\ IsEmptySeries
  /\ chartData.type = "doughnut"
  /\ tree.status = "ok"
  /\ tree.builder = "doughnut"
  /\ tree.dataPoints = 0

\* C15: the slices follow the series in order, the first one starts on
\* screen at -90 degrees (the top) and every later one starts at the end
\* angle of the one before it.
C15_SlicesChained ==
  (IsPie /\ EqualLength /\ AllNumbers /\ tree.slices # <<>>) =>
     /\ NumAdd(tree.slices[1].startAngle, Int2Num(tree.rotation))
          = Int2Num(-90)
     /\ \A k \in 2..Len(tree.slices) :
          /\ tree.slices[k].startAngle = tree.slices[k - 1].endAngle
          /\ tree.slices[k].index > tree.slices[k - 1].index

\* the share of a series entry in the total, in percent
ShareOf(value) ==
  IF NumGt(Total, Int2Num(0))
  THEN NumMul(NumDiv(value, Total), Int2Num(100))
  ELSE Int2Num(0)

\* C16: in App.js, where the threshold is, a slice under 0.5 percent is not
\* drawn, but its legend entry carries its share and the running angle
\* advances by its angle, so the next slice starts where it ends.
C16_SmallSliceKept ==
  (IsPie /\ chartData.variant = "app" /\ EqualLength) =>
     \A k \in 1..Len(tree.slices) :
        LET slice == tree.slices[k]
            share == ShareOf(chartData.data[slice.index])
        IN  NumLt(share, Frac(1, 2)) =>
               /\ ~slice.drawn
               /\ tree.legend[slice.index].percentage = share
               /\ slice.sliceAngle
                    = NumMul(NumDiv(share, Int2Num(100)), Int2Num(360))
               /\ slice.endAngle = NumAdd(slice.startAngle, slice.sliceAngle)
               /\ k < Len(tree.slices) =>
                     tree.slices[k + 1].startAngle = slice.endAngle

\* a slice of 0.25 percent, not drawn, and the slice after it, drawn from
\* the angle where the small one ends
C16_Witness ==
  /\ IsPie /\ chartData.variant = "app"
  /\ Len(tree.slices) = 2
  /\ tree.slices[1].percentage = Frac(1, 4)
  /\ ~tree.slices[1].drawn
  /\ tree.slices[2].drawn
  /\ tree.slices[2].startAngle = Frac(9, 10)
  /\ tree.legend[1].percentage = Frac(1, 4)

\* the series with 0 in the place of every entry that is not a number
ZeroedData ==
  [i \in 1..Len(chartData.data) |->
     IF IsNumber(chartData.data[i]) THEN chartData.data[i] ELSE Int2Num(0)]

\* C17: in a pie or doughnut an entry that is not a number adds nothing to
\* the total, its slice has angle 0, and every other slice starts and ends
\* where it does when the entry is the number 0.
C17_NonNumericAsZero ==
  (IsPie /\ EqualLength) =>
     LET zeroed == ChartDisplay([chartData EXCEPT !.data = ZeroedData],
                                now, Int2Num(0))
     IN  /\ SumNumeric(chartData.data) = SumNumeric(ZeroedData)
         /\ \A k \in 1..Len(tree.slices) :
              LET slice == tree.slices[k]
              IN  IF IsNumber(chartData.data[slice.index])
                  THEN \E m \in 1..Len(zeroed.slices) :
                          /\ zeroed.slices[m].index = slice.index
                          /\ zeroed.slices[m].startAngle = slice.startAngle
                          /\ zeroed.slices[m].endAngle = slice.endAngle
                  ELSE slice.sliceAngle = Int2Num(0)

(***************************************************************************)
(* Properties of the chat page of App.js (SpecApp).                        *)
(***************************************************************************)
AppAwaitsAnswer ==
  app.messages # <<>> /\ app.messages[Len(app.messages)] = "user"

\* one query at most, isLoading while it is in flight, and the messages
\* user, ai, user, ai, ... with the last user message the one in flight
AppInOrder ==
  /\ app.inFlight <= 1
  /\ app.isLoading = (app.inFlight = 1)
  /\ \A i \in 1..Len(app.messages) :
        (app.messages[i] = "user") = (i % 2 = 1)
  /\ AppAwaitsAnswer = (app.inFlight = 1)

\* C14: whatever the submit attempts and the backend outcomes, at most one
\* query is in flight, every accepted submit appends one user message that
\* is followed by one ai message before the next user message, and
\* isLoading returns to false.
C14_OneQueryAtATime ==
  /\ []AppInOrder
  /\ app.isLoading ~> ~app.isLoading
  /\ AppAwaitsAnswer ~> ~AppAwaitsAnswer

\* two queries answered, one by an HTTP error and one by an answer, and a
\* submit attempt that was turned down
C14_Witness ==
  /\ Len(app.messages) = 4
  /\ app.messages[2] = "error"
  /\ app.messages[4] = "answer"
  /\ app.calls > 2
  /\ ~app.isLoading

(***************************************************************************)
(* Properties of ResponseInterface (SpecResponse).                         *)
(***************************************************************************)
\* C18: isProcessing is set as long as a processQuery call is in flight,
\* and with it processingStep is not cleared; neither is reset before the
\* last call in flight has returned.
C18_ProcessingWhileInFlight ==
  ri.inFlight # {} => (ri.isProcessing /\ ri.processingStep # "")

\* C19: the initial query is sent to the backend at most once and gives at
\* most one response, however often the mount effects run for it.
C19_InitialQueryOnce ==
  /\ ri.sent <= 1
  /\ Cardinality({i \in 1..Len(ri.responses) :
                    ri.responses[i] = "initial"}) <= 1

(***************************************************************************)
(* Properties of ChatContext (SpecChat).                                   *)
(***************************************************************************)
\* C20: once deleteChat(id) has returned true, no conversation has that id
\* and it is not the current chat, whatever calls of addNewChat, loadChat
\* and deleteChat run at the same time.
C20_DeletedStaysGone ==
  \A id \in chat.deleted :
     id \notin chat.conversations /\ chat.currentChatId # id

\* the render of the same specification by the other of the two builders
OtherBuilder ==
  ChartDisplay([chartData EXCEPT
                  !.type = IF tree.builder = "pie" THEN "doughnut" ELSE "pie"],
               now, currentAngle)

IsLine == tree.status = "ok" /\ tree.builder = "line"

\* every entry of the series is the same number
AllEqual ==
  /\ chartData.data # <<>>
  /\ AllNumbers
  /\ \A i \in 1..Len(chartData.data) : chartData.data[i] = chartData.data[1]

TheScale == LineScale(chartData.variant, chartData.data)

\* C24: when all values of a line series are equal a domain width of 1 is
\* substituted: nothing is divided by zero, all points get the same y, and
\* the padded y-range the projection divides by has width exactly 1.
C24_EqualValues ==
  (IsLine /\ AllEqual) =>
     /\ TheScale.range = Int2Num(1)
     /\ \A i \in 1..Len(tree.points) :
           /\ IsFin(tree.points[i].y)
           /\ tree.points[i].y = tree.points[1].y

\* the pixel rows of the plot area: its top and its baseline
PlotTop == Int2Num(TheScale.baseline - TheScale.plotHeight)

PlotBottom == Int2Num(TheScale.baseline)

\* C25: the line builder pads the minimum and the maximum outward by the
\* same amount, so that every data point projects strictly inside the plot
\* area, for series with values near or below zero too.
C25_StrictlyInside ==
  (IsLine /\ chartData.variant \in {"app", "pro"} /\ AllNumbers) =>
     /\ NumSub(TheScale.domainMax, MaxValue(chartData.data))
          = NumSub(MinOf(FilterNumeric(chartData.data)), TheScale.domainMin)
     /\ \A i \in 1..Len(tree.points) :
           /\ NumGt(tree.points[i].y, PlotTop)
           /\ NumLt(tree.points[i].y, PlotBottom)

\* the direction in which the path arrives at the end of segment k and the
\* one in which it leaves it
ArrivesBy(k) ==
  LET s == tree.path.segments[k]
      last == s.controls[Len(s.controls)]
  IN  [x |-> NumSub(s.x, last.x), y |-> NumSub(s.y, last.y)]

LeavesBy(k) ==
  LET s == tree.path.segments[k]
      next == tree.path.segments[k + 1].controls[1]
  IN  [x |-> NumSub(next.x, s.x), y |-> NumSub(next.y, s.y)]

\* two directions with the same slope: parallel and of the same sense
SameSlope(u, v) ==
  /\ NumSub(NumMul(u.x, v.y), NumMul(u.y, v.x)) = Int2Num(0)
  /\ NumGt(NumAdd(NumMul(u.x, v.x), NumMul(u.y, v.y)), Int2Num(0))

\* C26: the smooth path passes exactly through every data point, in order,
\* and its slope is continuous at every interior point; with fewer than two
\* points no line is drawn.
C26_SmoothPath ==
  (IsLine /\ chartData.variant = "pro" /\ AllNumbers) =>
     IF Len(tree.points) < 2 THEN ~tree.path.drawn
     ELSE /\ tree.path.drawn
          /\ tree.path.start.x = tree.points[1].x
          /\ tree.path.start.y = tree.points[1].y
          /\ Len(tree.path.segments) = Len(tree.points) - 1
          /\ \A k \in 1..Len(tree.path.segments) :
                /\ tree.path.segments[k].x = tree.points[k + 1].x
                /\ tree.path.segments[k].y = tree.points[k + 1].y
          /\ \A k \in 1..(Len(tree.path.segments) - 1) :
                SameSlope(ArrivesBy(k), LeavesBy(k))

\* the first and the last entry of the series that is a number
FirstNumeric ==
  LET i == CHOOSE i \in 1..Len(chartData.data) :
             /\ IsNumber(chartData.data[i])
             /\ \A j \in 1..(i - 1) : ~IsNumber(chartData.data[j])
  IN  chartData.data[i]

LastNumeric ==
  LET i == CHOOSE i \in 1..Len(chartData.data) :
             /\ IsNumber(chartData.data[i])
             /\ \A j \in (i + 1)..Len(chartData.data) :
                   ~IsNumber(chartData.data[j])
  IN  chartData.data[i]

\* C27: the trend indicator depends on the first and the last numeric value
\* only: rising when the last is greater, falling when it is less, flat
\* exactly when they are equal; the entries between them and the entries
\* that are not numbers never change it.
C27_TrendOfEnds ==
  (IsLine /\ chartData.variant = "pro"
     /\ \E i \in 1..Len(chartData.data) : IsNumber(chartData.data[i])) =>
     /\ tree.trend = "up" <=> NumGt(LastNumeric, FirstNumeric)
     /\ tree.trend = "down" <=> NumLt(LastNumeric, FirstNumeric)
     /\ tree.trend = "stable" <=> LastNumeric = FirstNumeric

\* a series that rises to a peak and comes back to its first value: flat
C27_Witness ==
  /\ IsLine /\ chartData.variant = "pro"
  /\ chartData.data = <<Int2Num(0), Int2Num(5), Int2Num(0)>>
  /\ tree.trend = "stable"

(***************************************************************************)
(* Properties of the health check (SpecNet).                               *)
(***************************************************************************)
\* C21: under any interleaving of health checks with the online and offline
\* events of the browser, backendStatus is never 'connected' while isOnline
\* is false: the result of a health check that was pending when the offline
\* event arrived does not overwrite 'unavailable'.
C21_NotConnectedOffline ==
  net.backendStatus = "connected" => net.isOnline

(***************************************************************************)
(* Properties of updateChat (SpecUpdate).                                  *)
(***************************************************************************)
\* C28: with the backend connected, a chat of conversations and currentChat
\* carry the updates only once the backend has confirmed them: an update
\* whose call throws or is answered without success leaves both unchanged.
C28_UpdateAfterConfirmation ==
  chat.connected =>
     /\ chat.updated \subseteq chat.confirmed
     /\ chat.currentUpdated => chat.currentChatId \in chat.confirmed

(***************************************************************************)
(* Properties of handleSubmit (SpecMain).                                  *)
(***************************************************************************)
\* the entries of a list that belong to an accepted submit
EntriesOf(list, submit) == {i \in 1..Len(list) : list[i].submit = submit}

\* every call made for the submit has been answered
Settled(submit) == \A call \in main.pending : call.submit # submit

NavigatedOnce ==
  \A s \in 1..main.submits :
     Settled(s) => Cardinality(EntriesOf(main.navigated, s)) = 1

AddedOnce ==
  \A s \in 1..main.submits :
     Settled(s) => Cardinality(EntriesOf(main.added, s)) = 1

\* a submit is accepted only while no creation is under way
OneCreationAtATime ==
  Cardinality({call \in main.pending : call.by = "page"})
    = IF main.isCreatingChat THEN 1 ELSE 0

\* C30: every accepted submit (a query that is not blank, isCreatingChat
\* false) adds exactly one chat to the context and navigates exactly once,
\* whether the creation in the backend succeeds or fails; submits are
\* ignored while isCreatingChat is set, and isCreatingChat is cleared in the
\* end.
C30_OneChatPerSubmit ==
  /\ [](AddedOnce /\ NavigatedOnce /\ OneCreationAtATime)
  /\ main.isCreatingChat ~> ~main.isCreatingChat

\* the parts of it that do not count the chats of the context
C30_ButAdded ==
  /\ [](NavigatedOnce /\ OneCreationAtATime)
  /\ main.isCreatingChat ~> ~main.isCreatingChat

(***************************************************************************)
(* Properties of the selection (SpecRecent).                               *)
(***************************************************************************)
\* C22: after any sequence of toggleChatSelection, selectAllChats,
\* clearSelection, performBulkAction and changes of the search and of the
\* filter, isSelectionMode is true exactly when selectedChats is not empty.
C22_SelectionModeIffSelected ==
  recent.isSelectionMode <=> recent.selectedChats # <<>>

\* C29: every id in selectedChats is the id of a chat that is in
\* conversations, after any sequence of selections, single deletions, bulk
\* actions, refreshes and filter changes.
C29_SelectedExist ==
  SeqToSet(recent.selectedChats) \subseteq ChatIdsOf(recent.conversations)

(***************************************************************************)
(* Properties of the colours (SpecPalette).                                *)
(***************************************************************************)
PaletteColor(i) ==
  LET palette == Palette(chartData.variant)
  IN  palette[((i - 1) % Len(palette)) + 1]

\* C12: in one pie or doughnut render the colour of slice i is the colour
\* of legend entry i, and both are palette[i mod K] of the K-colour palette
\* of the component, also when there are more than K categories.
C12_PaletteConsistent ==
  IsPie =>
     /\ \A k \in 1..Len(tree.slices) :
          LET slice == tree.slices[k]
          IN  /\ slice.color = PaletteColor(slice.index)
              /\ slice.index <= Len(tree.legend) =>
                    tree.legend[slice.index].color = slice.color
     /\ \A i \in 1..Len(tree.legend) : tree.legend[i].color = PaletteColor(i)

\* a pie with a legend and more categories than the palette has colours
C12_Witness ==
  /\ IsPie
  /\ Len(tree.slices) > Len(Palette(chartData.variant))
  /\ Len(tree.legend) = Len(tree.slices)
  /\ tree.slices[Len(tree.slices)].color
       = tree.legend[Len(tree.slices) - Len(Palette(chartData.variant))].color

====
